---- MODULE Spec2Model ----
\* Vertex remap generation and application (src/src/remap.rs): the safe
\* wrappers generate_vertex_remap / generate_vertex_sized_remap /
\* generate_vertex_remap_multi, remap_index_buffer(_in_place) and
\* remap_vertex_buffer(_sized)(_in_place), over the meshoptimizer entry
\* points they call.  T is instantiated as u8, so a slice of T is a byte
\* sequence and vertex_size counts bytes.
EXTENDS Integers, Sequences, FiniteSets, TLC

VARIABLES
    mode,             \* "single": generate_vertex_sized_remap, "multi": generate_vertex_remap_multi
    vertices,         \* &[T]: the vertex buffer; in multi mode the memory the streams point into
    vertex_size,      \* bytes per vertex record (single mode)
    streams,          \* &[VertexStream]: <<[data, size, stride], ...>> (multi mode)
    count_arg,        \* vertex_count argument of generate_vertex_remap_multi
    indices,          \* Option<&[u32]>: [some, buf]
    pc,               \* the caller's place: "input", "generated" (a generator has
                      \* returned), "remapping" (the table is being applied), "aborted"
    oob,              \* a call has read or written outside the supplied buffers
    unique_count,     \* first component returned by the generator
    remap,            \* second component returned by the generator
    new_indices,      \* Option of the Vec returned by remap_index_buffer
    ib_arg,           \* the `indices` argument that call was given
    inplace_indices,  \* Option of the buffer after remap_index_buffer_in_place
    new_vertices,     \* Option of the Vec returned by remap_vertex_buffer_sized
    vb_count,         \* the `vertex_count` argument that call was given
    inplace_vertices  \* Option of the buffer after remap_vertex_buffer_sized_in_place

vars == <<mode, vertices, vertex_size, streams, count_arg, indices, pc, oob,
          unique_count, remap, new_indices, ib_arg, inplace_indices,
          new_vertices, vb_count, inplace_vertices>>

-----------------------------------------------------------------------------
\* Bounds of the model.

MaxVertexLen == 4     \* longest vertex slice (single mode), in elements of T
MaxVertexSize == 2    \* largest vertex_size (single mode)
MaxCount == 3         \* largest vertex_count (multi mode)
MaxIndexLen == 3      \* longest index buffer
MaxIndex == 2         \* index buffer entries range over 0..MaxIndex

-----------------------------------------------------------------------------
\* Program constants and data shapes.

SizeOfT == 1                 \* mem::size_of::<T>() for T = u8
DefaultT == 0                \* T::default() for T = u8
\* ~0u, the "unreferenced" entry of a remap table: the largest value of the
\* index type.  TLC's integers stop at 2^31 - 1, so the model's index type is
\* 31 bits wide; no operation here wraps, and the sentinel is only compared.
Sentinel == 2147483647

\* A byte is modelled by one bit: records are only ever compared for equality,
\* and two values per byte give every pattern of equal and unequal bytes.
Bytes == {0, 1}

None == [some |-> FALSE, buf |-> <<>>]
Some(s) == [some |-> TRUE, buf |-> s]

SeqsUpTo(S, n) == UNION {[1..k -> S] : k \in 0..n}

\* The bytes a stream contributes at position p: `size` bytes at data + p*stride.
StreamRecord(mem, s, p) == SubSeq(mem, s.data + p * s.stride + 1, s.data + p * s.stride + s.size)

RECURSIVE ConcatStreams(_, _, _)
ConcatStreams(mem, ss, p) ==
    IF ss = <<>> THEN <<>>
    ELSE StreamRecord(mem, Head(ss), p) \o ConcatStreams(mem, Tail(ss), p)

-----------------------------------------------------------------------------
\* The meshoptimizer entry points behind crate::ffi.

Zeros(n) == [i \in 1..n |-> 0]

\* One step of the generator's scan, at entry k of the index sequence: a
\* position seen for the first time takes the canonical index of the earlier
\* position holding the same bytes (the hash table `table` keeps the first
\* position of every pattern), or the next index if there is none.  An index
\* at or beyond vertex_count reads its record and writes its entry outside the
\* buffers: the bytes read either match a known pattern or look new (k in
\* oobNew), and the write does not land in the table.
ScanStep(st, index, k, recs, vertex_count, oobNew) ==
    IF index >= vertex_count
    THEN [st EXCEPT !.oob = TRUE,
                    !.next = IF k \in oobNew THEN @ + 1 ELSE @]
    ELSE IF st.dest[index + 1] # Sentinel THEN st
    ELSE LET hit == {e \in st.table : recs[e] = recs[index]}
         IN  IF hit = {}
             THEN [st EXCEPT !.table = @ \cup {index},
                             !.dest[index + 1] = st.next,
                             !.next = @ + 1]
             ELSE [st EXCEPT !.dest[index + 1] = st.dest[(CHOOSE e \in hit : TRUE) + 1]]

RECURSIVE Scan(_, _, _, _, _, _, _)
Scan(st, k, idx, index_count, recs, vertex_count, oobNew) ==
    IF k > index_count THEN st
    ELSE Scan(ScanStep(st, IF idx.some THEN idx.buf[k] ELSE k - 1, k,
                       recs, vertex_count, oobNew),
              k + 1, idx, index_count, recs, vertex_count, oobNew)

\* The generator over the records recs[0..vertex_count-1]: destination is
\* first filled with the sentinel, then the scan runs.
GenerateRemap(destination, idx, index_count, recs, vertex_count, oobNew) ==
    LET st0 == [dest  |-> [i \in 1..vertex_count |-> Sentinel],
                table |-> {}, next |-> 0, oob |-> FALSE]
        st  == Scan(st0, 1, idx, index_count, recs, vertex_count, oobNew)
    IN  [count |-> st.next, destination |-> st.dest, oob |-> st.oob]

meshopt_generateVertexRemap(destination, idx, index_count, verts, vertex_count, size, oobNew) ==
    GenerateRemap(destination, idx, index_count,
                  [p \in 0..(vertex_count - 1) |-> SubSeq(verts, p * size + 1, p * size + size)],
                  vertex_count, oobNew)

meshopt_generateVertexRemapMulti(destination, idx, index_count, vertex_count, mem, ss, oobNew) ==
    GenerateRemap(destination, idx, index_count,
                  [p \in 0..(vertex_count - 1) |-> ConcatStreams(mem, ss, p)],
                  vertex_count, oobNew)

\* destination[i] = remap[indices ? indices[i] : i]; an entry at or beyond the
\* table's length reads outside it and yields whatever lies there (garbage).
meshopt_remapIndexBuffer(destination, idx, index_count, table, garbage) ==
    [i \in 1..index_count |->
        LET index == IF idx.some THEN idx.buf[i] ELSE i - 1
        IN  IF index < Len(table) THEN table[index + 1] ELSE garbage]

\* Whether that call reads outside the remap table.
RemapIndexReadsOutside(idx, index_count, table) ==
    \E i \in 1..index_count :
        (IF idx.some THEN idx.buf[i] ELSE i - 1) >= Len(table)

\* for i < vertex_count: if remap[i] != ~0u, copy record i to slot remap[i].
\* `source` is read from a copy when destination and source are the same
\* buffer, so both variants reduce to this loop over the original bytes.
RECURSIVE CopyRecords(_, _, _, _, _, _)
CopyRecords(destination, source, i, vertex_count, size, table) ==
    IF i >= vertex_count THEN destination
    ELSE CopyRecords(
            IF table[i + 1] # Sentinel
            THEN [b \in 1..Len(destination) |->
                    IF b > table[i + 1] * size /\ b <= table[i + 1] * size + size
                    THEN source[i * size + (b - table[i + 1] * size)]
                    ELSE destination[b]]
            ELSE destination,
            source, i + 1, vertex_count, size, table)

meshopt_remapVertexBuffer(destination, source, vertex_count, size, table) ==
    CopyRecords(destination, source, 0, vertex_count, size, table)

-----------------------------------------------------------------------------
\* The wrappers of remap.rs.

\* Variants of the wrappers with one slip each, used to see that the
\* properties below depend on the wrappers.

\* ...returning the vertex count computed on entry instead of the unique count.
generate_vertex_sized_remap_entry_count(verts, size, idx, oobNew) ==
    LET vertex_count == Len(verts) \div (size \div SizeOfT)
        r == IF idx.some
             THEN meshopt_generateVertexRemap(Zeros(vertex_count), idx, Len(idx.buf),
                                              verts, vertex_count, size, oobNew)
             ELSE meshopt_generateVertexRemap(Zeros(vertex_count), None, vertex_count,
                                              verts, vertex_count, size, oobNew)
    IN  [count |-> vertex_count, remap |-> r.destination, oob |-> r.oob]

\* ...handing size_of::<T>() to the library where vertex_size is meant.
generate_vertex_sized_remap_elem_size(verts, size, idx, oobNew) ==
    LET vertex_count == Len(verts) \div (size \div SizeOfT)
        r == IF idx.some
             THEN meshopt_generateVertexRemap(Zeros(vertex_count), idx, Len(idx.buf),
                                              verts, vertex_count, SizeOfT, oobNew)
             ELSE meshopt_generateVertexRemap(Zeros(vertex_count), None, vertex_count,
                                              verts, vertex_count, SizeOfT, oobNew)
    IN  [count |-> r.count, remap |-> r.destination, oob |-> r.oob]

\* ...taking the unindexed branch whether or not indices are given.
generate_vertex_sized_remap_null_indices(verts, size, idx, oobNew) ==
    LET vertex_count == Len(verts) \div (size \div SizeOfT)
        r == meshopt_generateVertexRemap(Zeros(vertex_count), None, vertex_count,
                                         verts, vertex_count, size, oobNew)
    IN  [count |-> r.count, remap |-> r.destination, oob |-> r.oob]

\* ...filling a stream's size from its stride.
ToFfiStream_size_from_stride(stream) ==
    [data |-> stream.data, size |-> stream.stride, stride |-> stream.stride]

\* ...passing a null index pointer in the indexed branch.
remap_index_buffer_null_indices(idx, vertex_count, table, garbage) ==
    IF idx.some
    THEN meshopt_remapIndexBuffer(Zeros(Len(idx.buf)), None, Len(idx.buf), table, garbage)
    ELSE meshopt_remapIndexBuffer(Zeros(vertex_count), None, vertex_count, table, garbage)

generate_vertex_sized_remap(verts, size, idx, oobNew) ==
    LET vertex_count == Len(verts) \div (size \div SizeOfT)
        r == IF idx.some
             THEN meshopt_generateVertexRemap(Zeros(vertex_count), idx, Len(idx.buf),
                                              verts, vertex_count, size, oobNew)
             ELSE meshopt_generateVertexRemap(Zeros(vertex_count), None, vertex_count,
                                              verts, vertex_count, size, oobNew)
    IN  [count |-> r.count, remap |-> r.destination, oob |-> r.oob]

generate_vertex_remap(verts, idx, oobNew) ==
    generate_vertex_sized_remap(verts, SizeOfT, idx, oobNew)

\* |stream| meshopt_Stream { data, size, stride }
ToFfiStream(stream) ==
    [data |-> stream.data, size |-> stream.size, stride |-> stream.stride]

generate_vertex_remap_multi(vertex_count, mem, ss, idx, oobNew) ==
    LET ffiStreams == [k \in 1..Len(ss) |-> ToFfiStream(ss[k])]
        r == IF idx.some
             THEN meshopt_generateVertexRemapMulti(Zeros(vertex_count), idx, Len(idx.buf),
                                                   vertex_count, mem, ffiStreams, oobNew)
             ELSE meshopt_generateVertexRemapMulti(Zeros(vertex_count), None, vertex_count,
                                                   vertex_count, mem, ffiStreams, oobNew)
    IN  [count |-> r.count, remap |-> r.destination, oob |-> r.oob]

remap_index_buffer(idx, vertex_count, table, garbage) ==
    IF idx.some
    THEN meshopt_remapIndexBuffer(Zeros(Len(idx.buf)), idx, Len(idx.buf), table, garbage)
    ELSE meshopt_remapIndexBuffer(Zeros(vertex_count), None, vertex_count, table, garbage)

remap_index_buffer_in_place(buf, table, garbage) ==
    meshopt_remapIndexBuffer(buf, Some(buf), Len(buf), table, garbage)

remap_vertex_buffer_sized(verts, vertex_count, size, table) ==
    meshopt_remapVertexBuffer(
        [b \in 1..(vertex_count * (size \div SizeOfT)) |-> DefaultT],
        verts, vertex_count, size, table)

remap_vertex_buffer(verts, vertex_count, table) ==
    remap_vertex_buffer_sized(verts, vertex_count, SizeOfT, table)

remap_vertex_buffer_sized_in_place(verts, vertex_count, size, table) ==
    meshopt_remapVertexBuffer(verts, verts, vertex_count, size, table)

remap_vertex_buffer_in_place(verts, vertex_count, table) ==
    remap_vertex_buffer_sized_in_place(verts, vertex_count, SizeOfT, table)

-----------------------------------------------------------------------------
\* The inputs a caller can hand over.

IndexBuffers == {None} \cup {Some(s) : s \in SeqsUpTo(0..MaxIndex, MaxIndexLen)}

\* Stream sets over one interleaved buffer of two-byte vertices: the first
\* byte alone (the second is padding the stride skips), or both bytes as two
\* one-byte streams.
StreamSets ==
    { << [data |-> 0, size |-> 1, stride |-> 2] >>,
      << [data |-> 0, size |-> 1, stride |-> 2], [data |-> 1, size |-> 1, stride |-> 2] >> }

\* The number of vertices the call in `mode` classifies.
VertexCount ==
    IF mode = "single" THEN Len(vertices) \div (vertex_size \div SizeOfT) ELSE count_arg

\* The positions of the index buffer whose entry is out of range.
OutOfRange == IF indices.some
              THEN {k \in 1..Len(indices.buf) : indices.buf[k] >= VertexCount}
              ELSE {}

Garbage == {0, Sentinel}

Init ==
    /\ mode \in {"single", "multi"}
    /\ indices \in IndexBuffers
    /\ \/ /\ mode = "single"
          /\ vertex_size \in 1..MaxVertexSize
          /\ vertices \in SeqsUpTo(Bytes, MaxVertexLen)
          /\ streams = <<>>
          /\ count_arg = 0
       \/ /\ mode = "multi"
          /\ vertex_size = 0
          /\ count_arg \in 0..MaxCount
          /\ vertices \in [1..(2 * count_arg) -> Bytes]
          /\ streams \in StreamSets
    /\ pc = "input"
    /\ oob = FALSE
    /\ unique_count = 0
    /\ remap = <<>>
    /\ new_indices = None
    /\ ib_arg = None
    /\ inplace_indices = None
    /\ new_vertices = None
    /\ vb_count = 0
    /\ inplace_vertices = None

Outputs == <<new_indices, ib_arg, inplace_indices, new_vertices, vb_count, inplace_vertices>>
Inputs == <<mode, vertices, vertex_size, streams, count_arg, indices>>

\* What a generator call leaves behind: the returned pair, or, when an index
\* is out of range, possibly an abort inside the library instead.
Generated(r) ==
    \/ /\ pc' = "generated"
       /\ unique_count' = r.count
       /\ remap' = r.remap
       /\ oob' = r.oob
    \/ /\ r.oob
       /\ pc' = "aborted"
       /\ oob' = FALSE
       /\ UNCHANGED <<unique_count, remap>>

GenerateVertexRemap ==
    /\ pc = "input"
    /\ mode = "single"
    /\ vertex_size = SizeOfT
    /\ \E oobNew \in SUBSET OutOfRange :
          Generated(generate_vertex_remap(vertices, indices, oobNew))
    /\ UNCHANGED <<Inputs, Outputs>>

GenerateVertexSizedRemap ==
    /\ pc = "input"
    /\ mode = "single"
    /\ \E oobNew \in SUBSET OutOfRange :
          Generated(generate_vertex_sized_remap(vertices, vertex_size, indices, oobNew))
    /\ UNCHANGED <<Inputs, Outputs>>

GenerateVertexRemapMulti ==
    /\ pc = "input"
    /\ mode = "multi"
    /\ \E oobNew \in SUBSET OutOfRange :
          Generated(generate_vertex_remap_multi(count_arg, vertices, streams, indices, oobNew))
    /\ UNCHANGED <<Inputs, Outputs>>

\* The index buffers a caller remaps through the table: the mesh's own, none
\* (to synthesize one), or a one-entry buffer the table was not made for,
\* naming a position the mesh's indices leave out or the position just past
\* the table's end.
IndexArgs ==
    {indices, None}
        \cup {Some(<<p>>) : p \in {q \in 0..Len(remap) : q = Len(remap) \/ remap[q + 1] = Sentinel}}

\* remap_index_buffer(arg, remap.len(), &remap)
RemapIndexBuffer ==
    /\ pc = "generated"
    /\ ~oob
    /\ pc' = "remapping"
    /\ \E arg \in IndexArgs :
          LET outside == RemapIndexReadsOutside(
                            arg, IF arg.some THEN Len(arg.buf) ELSE Len(remap), remap)
          IN  /\ \E garbage \in (IF outside THEN Garbage ELSE {0}) :
                    new_indices' = Some(remap_index_buffer(arg, Len(remap), remap, garbage))
              /\ ib_arg' = arg
              /\ oob' = outside
    /\ UNCHANGED <<Inputs, unique_count, remap, inplace_indices,
                   new_vertices, vb_count, inplace_vertices>>

\* remap_index_buffer_in_place(&mut indices.to_vec(), &remap)
RemapIndexBufferInPlace ==
    /\ pc = "remapping"
    /\ ~oob
    /\ ib_arg = indices
    /\ indices.some
    /\ ~inplace_indices.some
    /\ LET outside == RemapIndexReadsOutside(indices, Len(indices.buf), remap)
       IN  /\ \E garbage \in (IF outside THEN Garbage ELSE {0}) :
                 inplace_indices' = Some(remap_index_buffer_in_place(indices.buf, remap, garbage))
           /\ oob' = outside
    /\ UNCHANGED <<Inputs, pc, unique_count, remap, new_indices, ib_arg,
                   new_vertices, vb_count, inplace_vertices>>

\* The vertex_count a caller passes to the vertex remappers: the unique count
\* the generator returned, or the length of the remap table.
VertexCountArgs == {unique_count, Len(remap)}

\* remap_vertex_buffer / remap_vertex_buffer_sized (&vertices, count, &remap)
RemapVertexBuffer ==
    /\ pc = "remapping"
    /\ mode = "single"
    /\ ~oob
    /\ ib_arg = indices
    /\ ~new_vertices.some
    /\ \E count \in VertexCountArgs :
          /\ new_vertices' = Some(IF vertex_size = SizeOfT
                                  THEN remap_vertex_buffer(vertices, count, remap)
                                  ELSE remap_vertex_buffer_sized(vertices, count, vertex_size, remap))
          /\ vb_count' = count
    /\ UNCHANGED <<Inputs, pc, oob, unique_count, remap, new_indices, ib_arg,
                   inplace_indices, inplace_vertices>>

\* remap_vertex_buffer_in_place / remap_vertex_buffer_sized_in_place
\* (&mut vertices.to_vec(), count, &remap), with the count of the call before.
RemapVertexBufferInPlace ==
    /\ pc = "remapping"
    /\ mode = "single"
    /\ ~oob
    /\ new_vertices.some
    /\ ~inplace_vertices.some
    /\ inplace_vertices' = Some(IF vertex_size = SizeOfT
                                THEN remap_vertex_buffer_in_place(vertices, vb_count, remap)
                                ELSE remap_vertex_buffer_sized_in_place(vertices, vb_count, vertex_size, remap))
    /\ UNCHANGED <<Inputs, pc, oob, unique_count, remap, new_indices, ib_arg,
                   inplace_indices, new_vertices, vb_count>>

Next ==
    \/ GenerateVertexRemap
    \/ GenerateVertexSizedRemap
    \/ GenerateVertexRemapMulti
    \/ RemapIndexBuffer
    \/ RemapIndexBufferInPlace
    \/ RemapVertexBuffer
    \/ RemapVertexBufferInPlace

Spec == Init /\ [][Next]_vars

-----------------------------------------------------------------------------
\* Vocabulary of the properties.

\* The byte record of vertex position p, read off the caller's buffers.
RecordAt(p) ==
    IF mode = "single"
    THEN SubSeq(vertices, p * vertex_size + 1, p * vertex_size + vertex_size)
    ELSE ConcatStreams(vertices, streams, p)

\* The positions the scan visits, in order: the index buffer, or every
\* position in buffer order when the input is unindexed.
RefSeq == IF indices.some THEN indices.buf ELSE [k \in 1..VertexCount |-> k - 1]

Referenced == {RefSeq[k] : k \in 1..Len(RefSeq)}

\* The place in the scan of the first reference to any position holding the
\* same bytes as p.
FirstRef(p) ==
    CHOOSE k \in 1..Len(RefSeq) :
        /\ RecordAt(RefSeq[k]) = RecordAt(p)
        /\ \A m \in 1..(k - 1) : RecordAt(RefSeq[m]) # RecordAt(p)

\* The number of distinct byte patterns met before p's pattern first appears.
ClassRank(p) == Cardinality({RecordAt(RefSeq[m]) : m \in 1..(FirstRef(p) - 1)})

\* A generator has returned on a valid input.
GeneratedValid == pc = "generated" /\ OutOfRange = {}

\* ... and the caller has gone on to apply the table.
RemappingValid == pc = "remapping" /\ OutOfRange = {}

\* The index buffer given to remap_index_buffer stays inside the table.
ArgInRange == \A k \in 1..Len(ib_arg.buf) : ib_arg.buf[k] < Len(remap)

Entry(p) == remap[p + 1]

-----------------------------------------------------------------------------
\* C1 (density): after a generator returns on a valid input, the entries of
\* the remap table other than the sentinel are exactly 0 .. unique_count - 1.
C1_Density ==
    GeneratedValid =>
        {remap[i] : i \in 1..Len(remap)} \ {Sentinel} = 0..(unique_count - 1)

\* A valid indexed input with an unreferenced position, a repeated record
\* and two classes, after generation.
C1_Witness ==
    /\ GeneratedValid
    /\ indices.some
    /\ unique_count = 2
    /\ \E i \in 1..Len(remap) : remap[i] = Sentinel
    /\ \E p, q \in Referenced : p # q /\ Entry(p) = Entry(q)

\* C2 (equivalence): two referenced positions get the same entry exactly when
\* their byte records are equal; in multi-stream mode the record is the
\* concatenation of each stream's `size` bytes, whatever lies in the rest of
\* the stride.
C2_Equivalence ==
    GeneratedValid =>
        \A p, q \in Referenced : (Entry(p) = Entry(q)) <=> (RecordAt(p) = RecordAt(q))

\* A one-stream input with stride 2 and size 1 where two referenced positions
\* agree on the stream's byte and differ in the padding byte, and a third
\* differs in the stream's byte.
C2_Witness ==
    /\ GeneratedValid
    /\ mode = "multi"
    /\ Len(streams) = 1
    /\ \E p, q, r \in Referenced :
          /\ p # q
          /\ RecordAt(p) = RecordAt(q)
          /\ vertices[2 * p + 2] # vertices[2 * q + 2]
          /\ RecordAt(r) # RecordAt(p)
          /\ Entry(p) = Entry(q)
          /\ Entry(r) # Entry(p)

\* C3 (first-appearance numbering): the k-th distinct byte pattern met by the
\* scan gets canonical index k, so between referenced positions of different
\* classes the smaller entry belongs to the class that appears first.
C3_FirstAppearance ==
    GeneratedValid =>
        /\ \A p \in Referenced : Entry(p) = ClassRank(p)
        /\ \A p, q \in Referenced :
              RecordAt(p) # RecordAt(q) =>
                  ((Entry(p) < Entry(q)) <=> (FirstRef(p) < FirstRef(q)))

\* Three classes met in an order that is not the position order.
C3_Witness ==
    /\ GeneratedValid
    /\ indices.some
    /\ unique_count = 3
    /\ \E p, q \in Referenced : p > q /\ Entry(p) < Entry(q)

-----------------------------------------------------------------------------
\* Vocabulary of the remapper properties.

\* The record in slot s of the buffer remap_vertex_buffer returned.
NewRecord(s) == SubSeq(new_vertices.buf, s * vertex_size + 1, s * vertex_size + vertex_size)

\* How often r occurs in the sequence seq.
CountOf(seq, r) == Cardinality({k \in DOMAIN seq : seq[k] = r})

\* Sequences with the same elements, each as often.
SameBag(a, b) ==
    /\ Len(a) = Len(b)
    /\ \A k \in DOMAIN a : CountOf(a, a[k]) = CountOf(b, a[k])

\* The valid pipeline ran remap_vertex_buffer with the unique count.
CompactedByUniqueCount ==
    /\ RemappingValid
    /\ new_vertices.some
    /\ vb_count = unique_count

\* The vertex buffer with the record at position u replaced by r.
WithRecord(verts, u, r) ==
    [b \in 1..Len(verts) |->
        IF b > u * vertex_size /\ b <= u * vertex_size + vertex_size
        THEN r[b - u * vertex_size]
        ELSE verts[b]]

-----------------------------------------------------------------------------
\* C4 (vertex remap copies every kept vertex): remap_vertex_buffer(vertices,
\* unique_count, remap) returns unique_count records, and every position whose
\* entry is not the sentinel, wherever it lies in the old buffer, has its
\* record at slot remap[i] of the result.
C4_CopiesEveryKeptVertex ==
    CompactedByUniqueCount =>
        /\ Len(new_vertices.buf) = unique_count * vertex_size
        /\ \A p \in 0..(Len(remap) - 1) :
              Entry(p) # Sentinel => NewRecord(Entry(p)) = RecordAt(p)

\* C5 (round trip): the records the new index buffer resolves to in the new
\* vertex buffer are, as a multiset, the records the old index buffer (or the
\* buffer order) resolves to in the old vertex buffer.
C5_RoundTrip ==
    (CompactedByUniqueCount /\ ib_arg = indices) =>
        SameBag([k \in 1..Len(new_indices.buf) |-> NewRecord(new_indices.buf[k])],
                [k \in 1..Len(RefSeq) |-> RecordAt(RefSeq[k])])

\* C6 (index substitution): with indices the result of remap_index_buffer has
\* their length and entry k is remap[indices[k]], the sentinel included;
\* without, it has vertex_count entries and entry k is remap[k]; the in-place
\* variant leaves the buffer equal to that result.
C6_IndexSubstitution ==
    (RemappingValid /\ ArgInRange) =>
        /\ IF ib_arg.some
           THEN /\ Len(new_indices.buf) = Len(ib_arg.buf)
                /\ \A k \in 1..Len(ib_arg.buf) : new_indices.buf[k] = Entry(ib_arg.buf[k])
           ELSE /\ Len(new_indices.buf) = Len(remap)
                /\ \A k \in 1..Len(remap) : new_indices.buf[k] = remap[k]
        /\ inplace_indices.some =>
              /\ \A k \in 1..Len(indices.buf) : inplace_indices.buf[k] = Entry(indices.buf[k])
              /\ ib_arg = indices => inplace_indices.buf = new_indices.buf

\* Both variants ran on an index buffer naming two classes.
C6_Witness ==
    /\ RemappingValid
    /\ inplace_indices.some
    /\ Len(indices.buf) >= 3
    /\ \E k, m \in 1..Len(indices.buf) :
          /\ indices.buf[k] # indices.buf[m]
          /\ new_indices.buf[k] # new_indices.buf[m]
          /\ new_indices.buf[k] # indices.buf[k]

\* C7 as stated (order of positions): a position referenced before another,
\* not equivalent to it, has the smaller entry.
C7_PositionOrder ==
    GeneratedValid =>
        \A k, m \in 1..Len(RefSeq) :
            (k < m /\ RecordAt(RefSeq[k]) # RecordAt(RefSeq[m])) =>
                Entry(RefSeq[k]) < Entry(RefSeq[m])

\* C7 as amended: a position referenced before the byte pattern of another
\* first appears in the scan, not equivalent to it, has the smaller entry.
C7_BeforeFirstAppearance ==
    GeneratedValid =>
        \A k \in 1..Len(RefSeq) : \A q \in Referenced :
            (k < FirstRef(q) /\ RecordAt(RefSeq[k]) # RecordAt(q)) =>
                Entry(RefSeq[k]) < Entry(q)

\* The scan meets a pattern, then another, then the first again: the last
\* reference comes after the second pattern yet keeps the smaller entry.
C7_Witness ==
    /\ GeneratedValid
    /\ \E k, m, n \in 1..Len(RefSeq) :
          /\ k < m /\ m < n
          /\ RefSeq[k] # RefSeq[n]
          /\ RecordAt(RefSeq[k]) = RecordAt(RefSeq[n])
          /\ RecordAt(RefSeq[k]) # RecordAt(RefSeq[m])
          /\ k < FirstRef(RefSeq[m])
          /\ Entry(RefSeq[k]) < Entry(RefSeq[m])

\* C8 (unreferenced drop): on an indexed input a position the index buffer
\* never names gets the sentinel, unique_count is the number of distinct
\* records among the referenced positions, and the buffer
\* remap_vertex_buffer(vertices, unique_count, remap) returns takes nothing
\* from that position: it is the same whatever record lies there.
C8_UnreferencedDrop ==
    ((GeneratedValid \/ RemappingValid) /\ indices.some) =>
        /\ \A u \in (0..(Len(remap) - 1)) \ Referenced : Entry(u) = Sentinel
        /\ unique_count = Cardinality({RecordAt(p) : p \in Referenced})
        /\ CompactedByUniqueCount =>
              \A u \in (0..(Len(remap) - 1)) \ Referenced :
                  \A r \in [1..vertex_size -> Bytes] :
                      remap_vertex_buffer_sized(WithRecord(vertices, u, r), vb_count,
                                                vertex_size, remap) = new_vertices.buf

\* An unreferenced position below unique_count (the copy loop meets it and
\* skips it), holding a record other than the first referenced one, after the
\* vertex buffer was remapped.
C8_Witness ==
    /\ CompactedByUniqueCount
    /\ indices.some
    /\ unique_count >= 2
    /\ \E u \in (0..(Len(remap) - 1)) \ Referenced :
          /\ u < unique_count
          /\ RecordAt(RefSeq[1]) # RecordAt(u)

\* An already-compacted mesh: pairwise distinct records, and an index buffer
\* (if any) that names every position.
Compacted ==
    /\ \A p, q \in 0..(VertexCount - 1) : p # q => RecordAt(p) # RecordAt(q)
    /\ indices.some => Referenced = 0..(VertexCount - 1)

\* The first references to the positions come in position order.
FirstReferencesAscend ==
    \A p, q \in Referenced : p < q => FirstRef(p) < FirstRef(q)

\* C9 as stated (idempotence): on a compacted mesh the generator returns the
\* vertex count and the identity table.
C9_Idempotence ==
    (GeneratedValid /\ Compacted) =>
        /\ unique_count = VertexCount
        /\ \A p \in 0..(VertexCount - 1) : Entry(p) = p

\* C9 as amended: on a compacted mesh the generator returns the vertex count,
\* and the identity table when the first references to the positions come in
\* position order (always so when the input is unindexed).
C9_IdempotenceInOrder ==
    (GeneratedValid /\ Compacted) =>
        /\ unique_count = VertexCount
        /\ FirstReferencesAscend => \A p \in 0..(VertexCount - 1) : Entry(p) = p

\* A compacted indexed mesh of two vertices or more, with a position named
\* twice, first references in position order.
C9_Witness ==
    /\ GeneratedValid
    /\ Compacted
    /\ FirstReferencesAscend
    /\ indices.some
    /\ VertexCount >= 2
    /\ Len(indices.buf) > VertexCount
    /\ \A p \in 0..(VertexCount - 1) : Entry(p) = p

\* C10 (out-of-range rejection): once a generator has been called on an index
\* buffer with an entry at or beyond the vertex count, the call has reported
\* a failure, returned no table and touched nothing outside the buffers; and
\* once remap_index_buffer has been called on such a buffer it has returned no
\* index buffer and touched nothing outside the table.
C10_OutOfRangeRejected ==
    /\ (OutOfRange # {} /\ pc # "input") =>
          (pc = "failed" /\ ~oob /\ remap = <<>>)
    /\ (pc = "remapping" /\ ~ArgInRange) =>
          (~oob /\ ~new_indices.some /\ ~inplace_indices.some)

====
